---- MODULE Spec2Model ----
(***************************************************************************)
(* Review ledger of the "school reviews" module: the three relations       *)
(* school_reviews_subjects, school_reviews_reviews and                     *)
(* school_reviews_relevance (src/reviews/database.py) and the handlers of  *)
(* src/reviews/module.py that change them.                                 *)
(*                                                                         *)
(* Every handler runs to completion on the one process-wide SQLAlchemy     *)
(* session without awaiting between its database calls, so one handler is  *)
(* one action.  Subject.remove issues its DELETE without a commit; the     *)
(* statement is visible to every later query of the same session, so the   *)
(* model applies it at once.  The date column is written by Review.add     *)
(* (date.today()) and read by no operation modelled here; it is left out.  *)
(*                                                                         *)
(* Nothing but the event loop serializes the handlers: the code takes no   *)
(* lock and the reviews table has no unique key on (author, subject).  The *)
(* specifications SpecAddRace and SpecVoteRace therefore run Review.add    *)
(* and the vote methods statement by statement for two callers that reach  *)
(* the store at the same time.  SpecPaginator runs the two pure functions  *)
(* that split a review text and a list of shortcuts into embed fields.     *)
(* SpecEmbeds keeps a voting embed on display, with the review id it was   *)
(* built for, while reviews are removed and added.                         *)
(***************************************************************************)
EXTENDS Integers, Sequences, FiniteSets, TLC

\* ---------------------------------------------------------------- bounds
\* Highest primary key handed out for a subject / for a review.
MaxSubjectId == 2
MaxReviewId == 2
\* Longest review text, longest shortcut and longest list of shortcuts
\* handed to the paginator, and the largest of the small chunk sizes it is
\* run with besides MAX_LEN.
MaxTextLen == 5
MaxItemLen == 5
MaxItems == 3
MaxChunkLen == 4

\* ---------------------------------------------------------------- inputs
Guilds == {1, 2}
Users == {1, 2}
\* Shortcuts are sequences of characters, so that str.lower() is computed.
Shortcuts == { <<"c", "s">>, <<"C", "s">> }
Info1 == [name |-> "n1", category |-> "c1"]
Info2 == [name |-> "n2", category |-> "c2"]
Good == [mark |-> 4, anonymous |-> FALSE, text |-> "good"]
Great == [mark |-> 5, anonymous |-> TRUE, text |-> "great"]
\* Inputs that one of the checks of _add_review turns down.
Rejected == { [mark |-> 0, anonymous |-> FALSE, text |-> "good"],
              [mark |-> 6, anonymous |-> TRUE,  text |-> "great"],
              [mark |-> 4, anonymous |-> FALSE, text |-> ""],
              [mark |-> 0, anonymous |-> FALSE, text |-> ""] }
ReviewIds == 1..MaxReviewId
\* Inputs that pass every check of _add_review, and the three vote buttons.
Accepted == {Good, Great}
VoteOps == {"vote_up", "vote_down", "vote_neutral"}
\* The two families of database back ends the session can be bound to:
\* one that enforces foreign keys and numbers rows from a sequence, and
\* SQLite, which by default enforces no foreign key and numbers a row
\* max(rowid) + 1.
Backends == {"fk_sequence", "sqlite"}

VARIABLES
    subjects,    \* rows of school_reviews_subjects
    reviews,     \* rows of school_reviews_reviews
    relevance,   \* rows of school_reviews_relevance
    subjectSeq,  \* last value of the subjects' id sequence (fk_sequence)
    reviewSeq,   \* last value of the reviews' id sequence (fk_sequence)
    backend,     \* the back end of this run
    last,        \* the handler that ran last and its outcome
    calls,       \* the calls in flight of the concurrent callers
    page,        \* the paginator call: its input and the chunks it returned
    embed        \* the voting embed on display and the review it shows

vars == <<subjects, reviews, relevance, subjectSeq, reviewSeq, backend, last,
          calls, page, embed>>
\* What no ledger handler run in one piece touches.
others == <<backend, calls, page, embed>>
db == <<subjects, reviews, relevance>>

\* ------------------------------------------------------------- helpers
SetMax(S) == IF S = {} THEN 0 ELSE CHOOSE m \in S : \A x \in S : x <= m

\* str.lower(), character by character.
LowerChar(c) ==
    CASE c = "C" -> "c"
      [] c = "S" -> "s"
      [] OTHER -> c
Lower(s) == [i \in DOMAIN s |-> LowerChar(s[i])]

\* What a handler leaves behind for its caller: its name, the mark it was
\* given (0: none), what it returned or replied, the id of the row it
\* worked on (0: none), whether that row existed when it started, how many
\* vote entries it deleted along with a review, and whether it changed any
\* row at all.
Outcome(op, mark, rid, result, existed, cleared, changed) ==
    [op |-> op, mark |-> mark, rid |-> rid, result |-> result,
     existed |-> existed, cleared |-> cleared, changed |-> changed]

\* ------------------------------------------------------------- Subject
\* Subject.get: the rows with this guild whose shortcut equals the
\* lower-cased abbreviation (one_or_none: the empty set is None).
Subject_get(g, abbr) ==
    {s \in subjects : s.guild_id = g /\ s.shortcut = Lower(abbr)}

\* The filter of Subject.add and Subject.remove: the shortcut as given.
SubjectExact(g, abbr) ==
    {s \in subjects : s.guild_id = g /\ s.shortcut = abbr}

NextSubjectId ==
    IF backend = "sqlite" THEN SetMax({s.id : s \in subjects}) + 1
    ELSE subjectSeq + 1

Subject_add(g, abbr, info) ==
    LET found == SubjectExact(g, abbr) IN
    IF found # {}
    THEN /\ subjects' = (subjects \ found) \cup
                {[s EXCEPT !.name = info.name, !.category = info.category]
                    : s \in found}
         /\ UNCHANGED <<reviews, relevance, subjectSeq, reviewSeq, others>>
         /\ last' = Outcome("subject_add", 0, SetMax({s.id : s \in found}),
                            "ok", TRUE, 0, db' # db)
    ELSE /\ NextSubjectId <= MaxSubjectId
         /\ subjects' = subjects \cup
                {[id |-> NextSubjectId, shortcut |-> abbr, guild_id |-> g,
                  name |-> info.name, category |-> info.category]}
         /\ subjectSeq' = IF backend = "sqlite" THEN subjectSeq
                          ELSE subjectSeq + 1
         /\ UNCHANGED <<reviews, relevance, reviewSeq, others>>
         /\ last' = Outcome("subject_add", 0, NextSubjectId, "ok", FALSE, 0,
                            db' # db)

\* Subject.remove: a bulk Query.delete().  It bypasses the ORM cascade of
\* Subject.reviews, and the foreign key of Review.subject carries no
\* ON DELETE rule: a back end that enforces the key rejects the statement
\* while a review still references the subject, SQLite deletes the subject
\* alone.
Subject_remove(g, abbr) ==
    LET found == SubjectExact(g, abbr)
        referencing == {r \in reviews : \E s \in found : r.subject = s.id}
    IN
    IF found # {} /\ referencing # {} /\ backend # "sqlite"
    THEN /\ UNCHANGED <<subjects, reviews, relevance, subjectSeq, reviewSeq,
                        others>>
         /\ last' = Outcome("subject_remove", 0,
                            SetMax({s.id : s \in found}), "IntegrityError",
                            TRUE, 0, FALSE)
    ELSE /\ subjects' = subjects \ found
         /\ UNCHANGED <<reviews, relevance, subjectSeq, reviewSeq, others>>
         /\ last' = Outcome("subject_remove", 0,
                            SetMax({s.id : s \in found}),
                            IF found # {} THEN "True" ELSE "False",
                            found # {}, 0, db' # db)

\* -------------------------------------------------------------- Review
\* Review.get: the row with this primary key (the empty set is None).
Review_get(rid) == {r \in reviews : r.id = rid}

\* Review_lookup with the abbreviation compared as given, not lower-cased.
Review_lookup_AsGiven(g, a, abbr) ==
    {r \in reviews :
        /\ \E s \in subjects : s.id = r.subject /\ s.guild_id = g
        /\ r.discord_id = a
        /\ \E s \in subjects : s.id = r.subject /\ s.shortcut = abbr}

\* The query of Review.add and Review.remove: the reviews of this author
\* whose subject is in the guild and whose subject's shortcut equals the
\* lower-cased abbreviation.
Review_lookup(g, a, abbr) ==
    {r \in reviews :
        /\ \E s \in subjects : s.id = r.subject /\ s.guild_id = g
        /\ r.discord_id = a
        /\ \E s \in subjects : s.id = r.subject /\ s.shortcut = Lower(abbr)}

\* Review.relevance: the vote entries of a review.
RelevanceOf(rid) == {e \in relevance : e.review = rid}

get_positive_votes(rid) == Cardinality({e \in RelevanceOf(rid) : e.vote})
get_negative_votes(rid) == Cardinality({e \in RelevanceOf(rid) : ~e.vote})

NextReviewId ==
    IF backend = "sqlite" THEN SetMax({r.id : r \in reviews}) + 1
    ELSE reviewSeq + 1

\* TierInRange with the lower end of the range off by one.
TierInRange_FromZero(mark) == ~(mark < 0 \/ mark > 5)

\* The range check of _add_review.
TierInRange(mark) == ~(mark < 1 \/ mark > 5)

\* The update branch of Review.add.  It assigns review.mark, which is no
\* column of the table: the tier column keeps its value.
UpdatedReview(review, inp) ==
    [review EXCEPT !.anonym = inp.anonymous, !.text_review = inp.text]

\* RelevanceCleared with the votes of the rewritten review kept.
RelevanceCleared_Kept(rid) == relevance

\* The vote entries left once the update branch has deleted every entry
\* of review.relevance.
RelevanceCleared(rid) == relevance \ RelevanceOf(rid)

\* The insert branch of Review.add.
NewReview(rid, a, sid, inp) ==
    [id |-> rid, discord_id |-> a, anonym |-> inp.anonymous, subject |-> sid,
     tier |-> inp.mark, text_review |-> inp.text]

\* Review.add, reached from _add_review once its checks have passed.
\* one_or_none() raises when the query matches several rows.
Review_add(g, a, abbr, inp) ==
    LET subject_object == Subject_get(g, abbr)
        found == Review_lookup(g, a, abbr)
        sid == SetMax({s.id : s \in subject_object})
        rid == SetMax({r.id : r \in found})
    IN
    IF subject_object = {}
    THEN /\ UNCHANGED <<subjects, reviews, relevance, subjectSeq, reviewSeq,
                        others>>
         /\ last' = Outcome("add", inp.mark, 0, "None", FALSE, 0, FALSE)
    ELSE IF Cardinality(found) > 1
    THEN /\ UNCHANGED <<subjects, reviews, relevance, subjectSeq, reviewSeq,
                        others>>
         /\ last' = Outcome("add", inp.mark, 0, "MultipleResultsFound",
                            TRUE, 0, FALSE)
    ELSE IF found # {}
    THEN /\ reviews' = (reviews \ found) \cup
                {[UpdatedReview(r, inp) EXCEPT !.subject = sid] : r \in found}
         /\ relevance' = RelevanceCleared(rid)
         /\ UNCHANGED <<subjects, subjectSeq, reviewSeq, others>>
         /\ last' = Outcome("add", inp.mark, rid, "ok", TRUE,
                            Cardinality(relevance) - Cardinality(relevance'),
                            db' # db)
    ELSE /\ NextReviewId <= MaxReviewId
         /\ reviews' = reviews \cup {NewReview(NextReviewId, a, sid, inp)}
         /\ reviewSeq' = IF backend = "sqlite" THEN reviewSeq
                         ELSE reviewSeq + 1
         /\ UNCHANGED <<subjects, relevance, subjectSeq, others>>
         /\ last' = Outcome("add", inp.mark, NextReviewId, "ok", FALSE, 0,
                            db' # db)

\* Reviews._add_review: the three checks, in the order of the code, then
\* Review.add.
add_review(g, a, abbr, inp) ==
    IF ~TierInRange(inp.mark)
    THEN /\ UNCHANGED <<subjects, reviews, relevance, subjectSeq, reviewSeq,
                        others>>
         /\ last' = Outcome("add", inp.mark, 0, "InvalidTier", FALSE, 0,
                            FALSE)
    ELSE IF Subject_get(g, abbr) = {}
    THEN /\ UNCHANGED <<subjects, reviews, relevance, subjectSeq, reviewSeq,
                        others>>
         /\ last' = Outcome("add", inp.mark, 0, "SubjectNotFound", FALSE, 0,
                            FALSE)
    ELSE IF inp.text = ""
    THEN /\ UNCHANGED <<subjects, reviews, relevance, subjectSeq, reviewSeq,
                        others>>
         /\ last' = Outcome("add", inp.mark, 0, "EmptyText", FALSE, 0, FALSE)
    ELSE Review_add(g, a, abbr, inp)

\* Review_remove with the vote entries of the deleted review left behind.
Review_remove_KeepVotes(g, a, abbr) ==
    LET found == Review_lookup(g, a, abbr)
        rid == SetMax({r.id : r \in found})
    IN
    IF found = {}
    THEN /\ UNCHANGED <<subjects, reviews, relevance, subjectSeq, reviewSeq,
                        others>>
         /\ last' = Outcome("remove", 0, 0, "False", FALSE, 0, FALSE)
    ELSE /\ reviews' = reviews \ found
         /\ UNCHANGED <<subjects, relevance, subjectSeq, reviewSeq, others>>
         /\ last' = Outcome("remove", 0, rid, "True", TRUE, 0, db' # db)

\* Review.remove: session.delete(review) cascades over Review.relevance.
Review_remove(g, a, abbr) ==
    LET found == Review_lookup(g, a, abbr)
        rid == SetMax({r.id : r \in found})
    IN
    IF Cardinality(found) > 1
    THEN /\ UNCHANGED <<subjects, reviews, relevance, subjectSeq, reviewSeq,
                        others>>
         /\ last' = Outcome("remove", 0, 0, "MultipleResultsFound", TRUE, 0,
                            FALSE)
    ELSE IF found = {}
    THEN /\ UNCHANGED <<subjects, reviews, relevance, subjectSeq, reviewSeq,
                        others>>
         /\ last' = Outcome("remove", 0, 0, "False", FALSE, 0, FALSE)
    ELSE /\ reviews' = reviews \ found
         /\ relevance' = relevance \ RelevanceOf(rid)
         /\ UNCHANGED <<subjects, subjectSeq, reviewSeq, others>>
         /\ last' = Outcome("remove", 0, rid, "True", TRUE,
                            Cardinality(relevance) - Cardinality(relevance'),
                            db' # db)

\* ---------------------------------------------------------------- votes
\* The vote entries of one voter on one review.
EntriesOf(rid, u) == {e \in RelevanceOf(rid) : e.discord_id = u}

\* vote_up that appends an entry without searching review.relevance.
vote_up_Append(rid, u) ==
    relevance \cup {[review |-> rid, discord_id |-> u, vote |-> TRUE]}

\* vote_down that appends an entry without searching review.relevance.
vote_down_Append(rid, u) ==
    relevance \cup {[review |-> rid, discord_id |-> u, vote |-> FALSE]}

\* vote_up that flips the entry it finds instead of setting it to True.
vote_up_Toggle(rid, u) ==
    IF \E e \in RelevanceOf(rid) : e.discord_id = u
    THEN {IF e.review = rid /\ e.discord_id = u
          THEN [e EXCEPT !.vote = ~e.vote] ELSE e : e \in relevance}
    ELSE relevance \cup {[review |-> rid, discord_id |-> u, vote |-> TRUE]}

\* Review.vote_up: set the voter's entry to True, or append one.
vote_up(rid, u) ==
    IF \E e \in RelevanceOf(rid) : e.discord_id = u
    THEN {IF e.review = rid /\ e.discord_id = u
          THEN [e EXCEPT !.vote = TRUE] ELSE e : e \in relevance}
    ELSE relevance \cup {[review |-> rid, discord_id |-> u, vote |-> TRUE]}

\* Review.vote_down: set the voter's entry to False, or append one.
vote_down(rid, u) ==
    IF \E e \in RelevanceOf(rid) : e.discord_id = u
    THEN {IF e.review = rid /\ e.discord_id = u
          THEN [e EXCEPT !.vote = FALSE] ELSE e : e \in relevance}
    ELSE relevance \cup {[review |-> rid, discord_id |-> u, vote |-> FALSE]}

\* vote_neutral that deletes the entries of every voter on the review.
vote_neutral_WholeReview(rid, u) == {e \in relevance : e.review # rid}

\* Review.vote_neutral: delete the voter's entries on the review.
vote_neutral(rid, u) ==
    {e \in relevance : ~(e.discord_id = u /\ e.review = rid)}

\* The body shared by ReviewEmbed.vote_up / vote_down / vote_neutral:
\* nothing happens when the review has been removed in the meantime.
EmbedVote(op, rid, u, after) ==
    IF Review_get(rid) = {}
    THEN /\ UNCHANGED <<subjects, reviews, relevance, subjectSeq, reviewSeq,
                        others>>
         /\ last' = Outcome(op, 0, 0, "gone", FALSE, 0, FALSE)
    ELSE /\ relevance' = after
         /\ UNCHANGED <<subjects, reviews, subjectSeq, reviewSeq, others>>
         /\ last' = Outcome(op, 0, rid, "ok",
                            \E e \in RelevanceOf(rid) : e.discord_id = u,
                            0, db' # db)

ReviewEmbed_vote_up(rid, u) == EmbedVote("vote_up", rid, u, vote_up(rid, u))
ReviewEmbed_vote_down(rid, u) ==
    EmbedVote("vote_down", rid, u, vote_down(rid, u))
ReviewEmbed_vote_neutral(rid, u) ==
    EmbedVote("vote_neutral", rid, u, vote_neutral(rid, u))

\* --------------------------------------------------------------- embeds
\* A ReviewEmbed keeps the id of its review for as long as the message is
\* on display; the author and the subject it was built from are in the
\* fields of the message.
NoEmbed == [review_id |-> 0, author |-> 0, subject |-> 0]

\* review subject: a ReviewEmbed is built for a review of the subject.
ReviewEmbed_init(g, abbr) ==
    /\ \E s \in Subject_get(g, abbr), r \in reviews :
          /\ r.subject = s.id
          /\ embed' = [review_id |-> r.id, author |-> r.discord_id,
                       subject |-> r.subject]
    /\ UNCHANGED <<subjects, reviews, relevance, subjectSeq, reviewSeq,
                   backend, last, calls, page>>

\* A button of the embed on display is pressed: the vote goes to whatever
\* review Review.get returns for the id the embed keeps.
ReviewEmbed_button(u) ==
    /\ embed # NoEmbed
    /\ \/ ReviewEmbed_vote_up(embed.review_id, u)
       \/ ReviewEmbed_vote_down(embed.review_id, u)
       \/ ReviewEmbed_vote_neutral(embed.review_id, u)

\* ------------------------------------------------------------ paginator
\* Strings are sequences of characters.  The chunk size is a parameter of
\* the two operators: they are run with the MAX_LEN of the module and with
\* small sizes, on which they do the same arithmetic.
MAX_LEN == 1024
Separator == <<",", " ">>

\* split_review that leaves the last, non-full chunk out.
split_review_NoRemainder(review, maxLen) ==
    LET number_of_full_chunks == Len(review) \div maxLen IN
    [i \in 1..number_of_full_chunks |->
        SubSeq(review, (i - 1) * maxLen + 1, (i - 1) * maxLen + maxLen)]

\* split_review that appends the rest of the text even when it is empty.
split_review_AlwaysRemainder(review, maxLen) ==
    LET number_of_full_chunks == Len(review) \div maxLen
        full == [i \in 1..number_of_full_chunks |->
                    SubSeq(review, (i - 1) * maxLen + 1,
                           (i - 1) * maxLen + maxLen)]
    IN full \o <<SubSeq(review, number_of_full_chunks * maxLen + 1,
                         Len(review))>>

\* _split_review: the full chunks, then the rest if there is any.
split_review(review, maxLen) ==
    LET number_of_full_chunks == Len(review) \div maxLen
        full == [i \in 1..number_of_full_chunks |->
                    SubSeq(review, (i - 1) * maxLen + 1,
                           (i - 1) * maxLen + maxLen)]
    IN IF Len(review) % maxLen # 0
       THEN full \o <<SubSeq(review, number_of_full_chunks * maxLen + 1,
                              Len(review))>>
       ELSE full

\* StartsNewChunk with the separator left out of the sum.
StartsNewChunk_NoSeparator(chunk, shortcut, maxLen) ==
    Len(chunk) + Len(shortcut) > maxLen

\* The test of _split_subjects that opens a new chunk: the separator is
\* counted whether or not the chunk holds anything yet.
StartsNewChunk(chunk, shortcut, maxLen) ==
    Len(chunk) + Len(shortcut) + Len(Separator) > maxLen

\* One iteration of the loop of _split_subjects.
split_subjects_step(ans, shortcut, maxLen) ==
    LET opened == IF StartsNewChunk(ans[Len(ans)], shortcut, maxLen)
                  THEN Append(ans, <<>>) ELSE ans
        joined == IF opened[Len(opened)] # <<>>
                  THEN [opened EXCEPT ![Len(opened)] = @ \o Separator]
                  ELSE opened
    IN [joined EXCEPT ![Len(joined)] = @ \o shortcut]

\* _split_subjects: the loop over the shortcuts, from ans = [""].
RECURSIVE split_subjects_loop(_, _, _)
split_subjects_loop(ans, shortcuts, maxLen) ==
    IF shortcuts = <<>> THEN ans
    ELSE split_subjects_loop(split_subjects_step(ans, Head(shortcuts), maxLen),
                             Tail(shortcuts), maxLen)

split_subjects(shortcuts, maxLen) ==
    split_subjects_loop(<< <<>> >>, shortcuts, maxLen)

\* The inputs of the paginator.
Chars == {"a", "b"}
Texts == UNION {[1..n -> Chars] : n \in 0..MaxTextLen}
Filler(n) == [i \in 1..n |-> IF i % 3 = 0 THEN "a" ELSE "b"]
LongTexts == {Filler(2500), Filler(2048), Filler(1024), Filler(1023)}
Item(k) == [i \in 1..k |-> IF i % 2 = 1 THEN "c" ELSE "s"]
ItemsPool == {Item(k) : k \in 1..MaxItemLen} \cup {<<"s">>}
ItemLists == UNION {[1..n -> ItemsPool] : n \in 1..MaxItems}

NoPage ==
    [op |-> "none", review |-> <<>>, subjects |-> <<>>, maxLen |-> MAX_LEN,
     ans |-> <<>>]
PageInputs ==
    {[NoPage EXCEPT !.review = t, !.maxLen = n] :
        t \in Texts, n \in 1..MaxChunkLen}
    \cup {[NoPage EXCEPT !.review = t] : t \in LongTexts}
    \cup {[NoPage EXCEPT !.subjects = l, !.maxLen = n] :
        l \in ItemLists, n \in 1..MaxChunkLen}

\* review subject: the text of a review is split into the fields of its
\* embed.
review_subject ==
    /\ page.op = "none"
    /\ page' = [page EXCEPT !.op = "split_review",
                            !.ans = split_review(page.review, page.maxLen)]
    /\ UNCHANGED <<subjects, reviews, relevance, subjectSeq, reviewSeq,
                   backend, last, calls, embed>>

\* review list / review my-list: the shortcuts of the reviewed subjects are
\* packed into the fields of one embed; an empty list is answered before.
review_list ==
    /\ page.op = "none"
    /\ page.subjects # <<>>
    /\ page' = [page EXCEPT !.op = "split_subjects",
                            !.ans = split_subjects(page.subjects, page.maxLen)]
    /\ UNCHANGED <<subjects, reviews, relevance, subjectSeq, reviewSeq,
                   backend, last, calls, embed>>

\* --------------------------------------------------- concurrent callers
\* Review.add and the vote methods read, decide and then write, under no
\* lock and in no serializable transaction.  For callers that reach the
\* store concurrently every database statement is one step: a call holds
\* what its queries returned until its write is flushed by commit().
Callers == {1, 2}
NoInput == [mark |-> 0, anonymous |-> FALSE, text |-> ""]

\* A call in flight: the statement it executes next, the method, its
\* arguments, the id of the subject and of the review its queries returned
\* (0: None) and the vote entry of the voter it read ("none", "up", "down").
Call(pc, op, g, a, abbr, inp, sid, rid, seen) ==
    [pc |-> pc, op |-> op, g |-> g, a |-> a, abbr |-> abbr, inp |-> inp,
     sid |-> sid, rid |-> rid, seen |-> seen]
Idle == Call("idle", "none", 0, 0, <<>>, NoInput, 0, 0, "none")
NoCalls == [w \in Callers |-> Idle]

\* Reviews._add_review up to its call of Review.add: the three checks, the
\* second of them the first Subject.get.
add_check(w, g, a, abbr, inp) ==
    /\ calls[w].pc = "idle"
    /\ IF ~TierInRange(inp.mark) \/ Subject_get(g, abbr) = {} \/ inp.text = ""
       THEN add_review(g, a, abbr, inp)
       ELSE /\ calls' = [calls EXCEPT ![w] =
                            Call("add_get", "add", g, a, abbr, inp, 0, 0,
                                 "none")]
            /\ UNCHANGED <<subjects, reviews, relevance, subjectSeq,
                           reviewSeq, backend, last, page, embed>>

\* Review.add, first statement: Subject.get again; None is returned when
\* the subject has gone since the check of _add_review.
add_get(w) ==
    LET c == calls[w]
        subject_object == Subject_get(c.g, c.abbr)
    IN
    /\ c.pc = "add_get"
    /\ IF subject_object = {}
       THEN /\ calls' = [calls EXCEPT ![w] = Idle]
            /\ last' = Outcome("add", c.inp.mark, 0, "None", FALSE, 0, FALSE)
       ELSE /\ calls' = [calls EXCEPT
                            ![w].pc = "add_query",
                            ![w].sid = SetMax({s.id : s \in subject_object})]
            /\ UNCHANGED last
    /\ UNCHANGED <<subjects, reviews, relevance, subjectSeq, reviewSeq,
                   backend, page, embed>>

\* Review.add, second statement: the query for the author's review.
add_query(w) ==
    LET c == calls[w]
        found == Review_lookup(c.g, c.a, c.abbr)
    IN
    /\ c.pc = "add_query"
    /\ IF Cardinality(found) > 1
       THEN /\ calls' = [calls EXCEPT ![w] = Idle]
            /\ last' = Outcome("add", c.inp.mark, 0, "MultipleResultsFound",
                               TRUE, 0, FALSE)
       ELSE /\ calls' = [calls EXCEPT
                            ![w].pc = "add_write",
                            ![w].rid = SetMax({r.id : r \in found})]
            /\ UNCHANGED last
    /\ UNCHANGED <<subjects, reviews, relevance, subjectSeq, reviewSeq,
                   backend, page, embed>>

\* Review.add, the write flushed by commit(): the UPDATE of the row the
\* query returned (StaleDataError when the row has gone), or the INSERT of
\* a new row carrying the subject id read before (rejected by a back end
\* that enforces the foreign key when the subject has gone).
add_write(w) ==
    LET c == calls[w]
        row == Review_get(c.rid)
    IN
    /\ c.pc = "add_write"
    /\ calls' = [calls EXCEPT ![w] = Idle]
    /\ UNCHANGED <<subjects, subjectSeq, backend, page, embed>>
    /\ IF c.rid # 0 /\ row = {}
       THEN /\ UNCHANGED <<reviews, relevance, reviewSeq>>
            /\ last' = Outcome("add", c.inp.mark, c.rid, "StaleDataError",
                               TRUE, 0, FALSE)
       ELSE IF c.rid # 0
       THEN /\ reviews' = (reviews \ row) \cup
                   {[UpdatedReview(r, c.inp) EXCEPT !.subject = c.sid] :
                       r \in row}
            /\ relevance' = RelevanceCleared(c.rid)
            /\ UNCHANGED reviewSeq
            /\ last' = Outcome("add", c.inp.mark, c.rid, "ok", TRUE,
                               Cardinality(relevance) - Cardinality(relevance'),
                               db' # db)
       ELSE IF backend # "sqlite" /\ \A s \in subjects : s.id # c.sid
       THEN /\ UNCHANGED <<reviews, relevance, reviewSeq>>
            /\ last' = Outcome("add", c.inp.mark, 0, "IntegrityError",
                               FALSE, 0, FALSE)
       ELSE /\ NextReviewId <= MaxReviewId
            /\ reviews' = reviews \cup
                   {NewReview(NextReviewId, c.a, c.sid, c.inp)}
            /\ reviewSeq' = IF backend = "sqlite" THEN reviewSeq
                            ELSE reviewSeq + 1
            /\ UNCHANGED relevance
            /\ last' = Outcome("add", c.inp.mark, NextReviewId, "ok", FALSE,
                               0, db' # db)

\* The vote entry of voter u on review rid, as a scan of review.relevance
\* sees it.
Seen(rid, u) ==
    IF EntriesOf(rid, u) = {} THEN "none"
    ELSE IF \E e \in EntriesOf(rid, u) : e.vote THEN "up" ELSE "down"

\* ReviewEmbed.vote_up / vote_down / vote_neutral up to the write:
\* Review.get and, for up and down, the scan of review.relevance.
vote_read(w, op, rid, u) ==
    /\ calls[w].pc = "idle"
    /\ IF Review_get(rid) = {}
       THEN /\ UNCHANGED calls
            /\ last' = Outcome(op, 0, 0, "gone", FALSE, 0, FALSE)
       ELSE /\ calls' = [calls EXCEPT ![w] =
                            Call("vote_write", op, 0, u, <<>>, NoInput, 0, rid,
                                 IF op = "vote_neutral" THEN "none"
                                 ELSE Seen(rid, u))]
            /\ UNCHANGED last
    /\ UNCHANGED <<subjects, reviews, relevance, subjectSeq, reviewSeq,
                   backend, page, embed>>

\* The write of a vote, flushed by commit().  vote_neutral is one DELETE.
\* vote_up and vote_down INSERT an entry when the scan found none: the
\* primary key (review, discord_id) rejects a second entry, a back end
\* that enforces the foreign key rejects an entry of a removed review.
\* When the scan found an entry they UPDATE it if its value differs from
\* the target (StaleDataError when the entry has gone) and write nothing
\* if it does not.
vote_write(w) ==
    LET c == calls[w]
        target == IF c.op = "vote_up" THEN "up" ELSE "down"
        after == IF c.op = "vote_up" THEN vote_up(c.rid, c.a)
                 ELSE vote_down(c.rid, c.a)
        error == IF c.op = "vote_neutral" \/ c.seen = target THEN "ok"
                 ELSE IF c.seen = "none" /\ EntriesOf(c.rid, c.a) # {}
                 THEN "IntegrityError"
                 ELSE IF c.seen = "none" /\ backend # "sqlite"
                         /\ Review_get(c.rid) = {}
                 THEN "IntegrityError"
                 ELSE IF c.seen # "none" /\ EntriesOf(c.rid, c.a) = {}
                 THEN "StaleDataError"
                 ELSE "ok"
    IN
    /\ c.pc = "vote_write"
    /\ calls' = [calls EXCEPT ![w] = Idle]
    /\ relevance' = IF c.op = "vote_neutral" THEN vote_neutral(c.rid, c.a)
                    ELSE IF error # "ok" \/ c.seen = target THEN relevance
                    ELSE after
    /\ last' = Outcome(c.op, 0, c.rid, error, c.seen # "none", 0,
                       relevance' # relevance)
    /\ UNCHANGED <<subjects, reviews, subjectSeq, reviewSeq, backend, page, embed>>

\* ---------------------------------------------------------------- start

InitStore ==
    /\ subjects = {}
    /\ reviews = {}
    /\ relevance = {}
    /\ subjectSeq = 0
    /\ reviewSeq = 0
    /\ backend \in Backends
    /\ last = Outcome("init", 0, 0, "ok", FALSE, 0, FALSE)

Init ==
    /\ InitStore
    /\ calls = NoCalls
    /\ page = NoPage
    /\ embed = NoEmbed

\* One handler call, its arguments drawn from the given guilds, authors,
\* voters, subject descriptions and review inputs.
Step(G, A, V, I, In) ==
    \/ \E g \in G, abbr \in Shortcuts, info \in I : Subject_add(g, abbr, info)
    \/ \E g \in G, abbr \in Shortcuts : Subject_remove(g, abbr)
    \/ \E g \in G, a \in A, abbr \in Shortcuts, inp \in In :
          add_review(g, a, abbr, inp)
    \/ \E g \in G, a \in A, abbr \in Shortcuts : Review_remove(g, a, abbr)
    \/ \E rid \in ReviewIds, u \in V : ReviewEmbed_vote_up(rid, u)
    \/ \E rid \in ReviewIds, u \in V : ReviewEmbed_vote_down(rid, u)
    \/ \E rid \in ReviewIds, u \in V : ReviewEmbed_vote_neutral(rid, u)

\* Every handler with every input.  The three specifications below draw
\* the inputs from subsets, each wide in the part of the state its claims
\* are about.
Next ==
    \/ Step(Guilds, Users, Users, {Info1, Info2}, {Good, Great} \cup Rejected)
    \/ \E w \in Callers, g \in Guilds, a \in Users, abbr \in Shortcuts,
          inp \in Accepted \cup Rejected : add_check(w, g, a, abbr, inp)
    \/ \E w \in Callers : add_get(w) \/ add_query(w) \/ add_write(w)
    \/ \E w \in Callers, op \in VoteOps, rid \in ReviewIds, u \in Users :
          vote_read(w, op, rid, u)
    \/ \E w \in Callers : vote_write(w)
    \/ review_subject
    \/ review_list
    \/ \E g \in Guilds, abbr \in Shortcuts : ReviewEmbed_init(g, abbr)
    \/ \E u \in Users : ReviewEmbed_button(u)
Spec == Init /\ [][Next]_vars

\* The review ledger: two authors rewriting their reviews of one guild.
NextLedger == Step({1}, Users, {1}, {Info1}, {Good, Great} \cup Rejected)
SpecLedger == Init /\ [][NextLedger]_vars

\* The vote ledger: two voters on the reviews of two authors.
NextVotes == Step({1}, Users, Users, {Info1}, {Good} \cup Rejected)
SpecVotes == Init /\ [][NextVotes]_vars

\* The subject store: the subjects of two guilds, described and redescribed.
NextSubjects == Step(Guilds, {1}, {1}, {Info1, Info2}, {Good} \cup Rejected)
SpecSubjects == Init /\ [][NextSubjects]_vars

\* Two callers adding the review of one author for one subject while the
\* subject is added and removed.
NextAddRace ==
    \/ Subject_add(1, <<"c", "s">>, Info1)
    \/ Subject_remove(1, <<"c", "s">>)
    \/ Review_remove(1, 1, <<"c", "s">>)
    \/ \E w \in Callers, inp \in Accepted :
          add_check(w, 1, 1, <<"c", "s">>, inp)
    \/ \E w \in Callers : add_get(w)
    \/ \E w \in Callers : add_query(w)
    \/ \E w \in Callers : add_write(w)
SpecAddRace == Init /\ [][NextAddRace]_vars

\* Two callers voting on the reviews of one author for one subject.
NextVoteRace ==
    \/ Subject_add(1, <<"c", "s">>, Info1)
    \/ add_review(1, 1, <<"c", "s">>, Good)
    \/ Review_remove(1, 1, <<"c", "s">>)
    \/ \E w \in Callers, op \in VoteOps, rid \in ReviewIds, u \in Users :
          vote_read(w, op, rid, u)
    \/ \E w \in Callers : vote_write(w)
SpecVoteRace == Init /\ [][NextVoteRace]_vars

\* Voting embeds that stay on display while reviews are removed and added.
NextEmbeds ==
    \/ Subject_add(1, <<"c", "s">>, Info1)
    \/ Subject_remove(1, <<"c", "s">>)
    \/ \E a \in Users : add_review(1, a, <<"c", "s">>, Good)
    \/ \E a \in Users : Review_remove(1, a, <<"c", "s">>)
    \/ ReviewEmbed_init(1, <<"c", "s">>)
    \/ \E u \in Users : ReviewEmbed_button(u)
SpecEmbeds == Init /\ [][NextEmbeds]_vars

\* The paginator, on texts and lists of shortcuts of every small size.
InitPaginator ==
    /\ InitStore
    /\ calls = NoCalls
    /\ page \in PageInputs
    /\ embed = NoEmbed
NextPaginator == review_subject \/ review_list
SpecPaginator == InitPaginator /\ [][NextPaginator]_vars

\* ================================================================ claims

\* C1: in every reachable state, for every author a and every subject s at
\* most one review exists for the pair (a, s).
C1_OneReviewPerAuthorAndSubject ==
    \A r1 \in reviews, r2 \in reviews :
        (r1.discord_id = r2.discord_id /\ r1.subject = r2.subject) => r1 = r2

\* An add has just rewritten an existing review while another author's
\* review of the same subject is stored.
C1_Witness ==
    /\ last.op = "add" /\ last.result = "ok" /\ last.existed
    /\ \E r1 \in reviews, r2 \in reviews :
          /\ r1.id = last.rid /\ r2.id # r1.id
          /\ r2.subject = r1.subject /\ r2.discord_id # r1.discord_id

\* C2: when a review for (a, s) exists, a valid add(a, s, t2, anonymous,
\* text) rewrites that row in place (same id, no new row) and the stored
\* review then has tier t2, the new anonymous flag and the new text.
C2_OverwriteStoresTier ==
    [][\A g \in Guilds, a \in Users, abbr \in Shortcuts, inp \in Accepted :
          (/\ last'.op = "add" /\ last'.result = "ok"
           /\ Review_lookup(g, a, abbr) # {}
           /\ add_review(g, a, abbr, inp)) =>
             /\ Cardinality(reviews') = Cardinality(reviews)
             /\ \A r \in Review_lookup(g, a, abbr) :
                   \E w \in reviews' :
                      /\ w.id = r.id
                      /\ w.discord_id = a /\ w.subject = r.subject
                      /\ w.tier = inp.mark
                      /\ w.anonym = inp.anonymous
                      /\ w.text_review = inp.text]_vars

\* C3: whenever Review.add rewrites an existing review, every vote entry of
\* that review is deleted (both counts are 0 right after the call) and the
\* votes on the other reviews are untouched.
C3_OverwriteClearsVotes ==
    [][(last'.op = "add" /\ last'.result = "ok" /\ last'.existed) =>
          \A rid \in ReviewIds :
             rid = last'.rid =>
                /\ RelevanceOf(rid)' = {}
                /\ get_positive_votes(rid)' = 0
                /\ get_negative_votes(rid)' = 0
                /\ {e \in relevance' : e.review # rid} =
                      {e \in relevance : e.review # rid}]_vars

\* An add has just rewritten a review on which two voters had voted, and
\* the votes on another review are still stored.
C3_Witness ==
    /\ last.op = "add" /\ last.result = "ok" /\ last.existed
    /\ last.cleared = 2
    /\ RelevanceOf(last.rid) = {}
    /\ relevance # {}

Up(rid, u) == [review |-> rid, discord_id |-> u, vote |-> TRUE]
Down(rid, u) == [review |-> rid, discord_id |-> u, vote |-> FALSE]
\* No voter but u has an entry on the review.
OnlyVoter(rid, u) == \A e \in RelevanceOf(rid) : e.discord_id = u

\* C4: whatever the prior vote of voter v on review r, after voteUp(r, v)
\* the entry of v is up, after voteDown(r, v) it is down and after
\* voteNeutral(r, v) v has no entry; with no other voter the counts are
\* then (1,0), (0,1) and (0,0).
C4_VoteSetsEntry ==
    [][(last'.op \in VoteOps /\ last'.result = "ok") =>
          \A rid \in ReviewIds, u \in Users :
             /\ ReviewEmbed_vote_up(rid, u) =>
                   /\ EntriesOf(rid, u)' = {Up(rid, u)}
                   /\ OnlyVoter(rid, u)' =>
                         /\ get_positive_votes(rid)' = 1
                         /\ get_negative_votes(rid)' = 0
             /\ ReviewEmbed_vote_down(rid, u) =>
                   /\ EntriesOf(rid, u)' = {Down(rid, u)}
                   /\ OnlyVoter(rid, u)' =>
                         /\ get_positive_votes(rid)' = 0
                         /\ get_negative_votes(rid)' = 1
             /\ ReviewEmbed_vote_neutral(rid, u) =>
                   /\ EntriesOf(rid, u)' = {}
                   /\ OnlyVoter(rid, u)' =>
                         /\ get_positive_votes(rid)' = 0
                         /\ get_negative_votes(rid)' = 0]_vars

\* A voteDown has just turned the up vote of the only voter of a review
\* into a down vote.
C4_Witness ==
    /\ last.op = "vote_down" /\ last.result = "ok"
    /\ last.existed /\ last.changed
    /\ get_positive_votes(last.rid) = 0
    /\ get_negative_votes(last.rid) = 1

\* C5: in every reachable state each voter has at most one vote entry on a
\* review r, and positiveCount(r) + negativeCount(r) is the number of
\* distinct voters with an entry on r.
C5_CountsAreVoters ==
    \A rid \in ReviewIds :
       /\ \A e1 \in RelevanceOf(rid), e2 \in RelevanceOf(rid) :
             e1.discord_id = e2.discord_id => e1 = e2
       /\ get_positive_votes(rid) + get_negative_votes(rid) =
             Cardinality({e.discord_id : e \in RelevanceOf(rid)})

\* A vote has just replaced a voter's earlier vote on a review that now
\* holds one up vote and one down vote.
C5_Witness ==
    /\ last.op \in VoteOps /\ last.result = "ok"
    /\ last.existed /\ last.changed
    /\ get_positive_votes(last.rid) = 1
    /\ get_negative_votes(last.rid) = 1

\* C6: voteUp, voteDown and voteNeutral are idempotent: the same operation
\* by the same voter on the same review, applied again right after itself,
\* leaves the vote ledger as the first application left it and makes no
\* second entry for (r, v).
C6_VoteIdempotent ==
    [][(last'.op \in VoteOps /\ last'.result = "ok") =>
          \A rid \in ReviewIds, u \in Users :
             /\ ReviewEmbed_vote_up(rid, u) =>
                   /\ Review_get(rid)' # {}
                   /\ vote_up(rid, u)' = relevance'
                   /\ Cardinality(EntriesOf(rid, u)') <= 1
             /\ ReviewEmbed_vote_down(rid, u) =>
                   /\ Review_get(rid)' # {}
                   /\ vote_down(rid, u)' = relevance'
                   /\ Cardinality(EntriesOf(rid, u)') <= 1
             /\ ReviewEmbed_vote_neutral(rid, u) =>
                   /\ Review_get(rid)' # {}
                   /\ vote_neutral(rid, u)' = relevance'
                   /\ Cardinality(EntriesOf(rid, u)') <= 1]_vars

\* A voteUp has just been applied to an entry that was up already: it found
\* the entry and changed no row.
C6_Witness ==
    /\ last.op = "vote_up" /\ last.result = "ok"
    /\ last.existed /\ ~last.changed
    /\ get_positive_votes(last.rid) >= 1

\* C7: an add whose tier is outside 1..5 (0 and 6 in particular) fails with
\* InvalidTier and leaves subjects, reviews and vote entries unchanged.
C7_InvalidTierChangesNothing ==
    [][(last'.op = "add" /\ last'.mark \notin 1..5) =>
          /\ last'.result = "InvalidTier"
          /\ ~last'.changed
          /\ UNCHANGED db]_vars

\* An add with tier 0 has just been turned down while a review with a vote
\* on it is stored.
C7_Witness ==
    /\ last.op = "add" /\ last.mark = 0 /\ last.result = "InvalidTier"
    /\ \E r \in reviews : RelevanceOf(r.id) # {}

\* The subjects of a guild whose shortcut equals x when case is ignored.
SameIgnoringCase(g, x) ==
    {s \in subjects : s.guild_id = g /\ Lower(s.shortcut) = Lower(x)}

\* C8: after upsert(space, shortcut, ...) with a shortcut of any casing,
\* get(space, x) returns that subject for every x equal to the shortcut
\* ignoring case, the stored shortcut keeps the casing submitted, and get
\* returns nothing only when the space holds no such subject.
C8_GetIgnoresCase ==
    /\ \A s \in subjects :
          (last.op = "subject_add" /\ last.rid = s.id) =>
             \A x \in Shortcuts :
                Lower(x) = Lower(s.shortcut) => Subject_get(s.guild_id, x) = {s}
    /\ \A g \in Guilds, x \in Shortcuts :
          Subject_get(g, x) = {} => SameIgnoringCase(g, x) = {}

\* C9: in every reachable state no two subjects of one space have shortcuts
\* that are equal ignoring case.
C9_ShortcutUniqueIgnoringCase ==
    \A s1 \in subjects, s2 \in subjects :
        (s1.guild_id = s2.guild_id /\ Lower(s1.shortcut) = Lower(s2.shortcut))
            => s1 = s2

\* C10: after remove(space, shortcut) has returned true the subject is
\* gone, no review references it and no vote entry of such a review is
\* left; every review references an existing subject in every reachable
\* state; remove returns false and changes nothing when there is no such
\* subject.
C10_RemoveCascades ==
    /\ \A r \in reviews : \E s \in subjects : s.id = r.subject
    /\ (last.op = "subject_remove" /\ last.result = "True") =>
          /\ \A s \in subjects : s.id # last.rid
          /\ \A r \in reviews : r.subject # last.rid
    /\ (last.op = "subject_remove" /\ last.result = "False") =>
          ~last.changed

\* The reviews of author a for the subject that Subject.get resolves the
\* shortcut to in guild g.
ReviewsFor(g, a, abbr) ==
    {r \in reviews :
        r.discord_id = a /\ \E s \in Subject_get(g, abbr) : s.id = r.subject}

C15_SubjectNotFoundFirst ==
    [][(last'.op = "add") =>
          \A g \in Guilds, a \in Users, abbr \in Shortcuts,
             inp \in Accepted \cup Rejected :
             (Subject_get(g, abbr) = {} /\ add_review(g, a, abbr, inp)) =>
                /\ last'.result = "SubjectNotFound"
                /\ UNCHANGED db]_vars

\* The chunks of a sequence of chunks, joined end to end.
RECURSIVE Concat(_)
Concat(seqs) == IF seqs = <<>> THEN <<>> ELSE Head(seqs) \o Concat(Tail(seqs))

\* The number of characters in front of chunk i.
Offset(ans, i) == Len(Concat(SubSeq(ans, 1, i - 1)))

\* C16: for every text x and maxLen >= 1 the chunks of chunkText are
\* consecutive, non-overlapping substrings of x, and joined in order they
\* give x back exactly.
C16_ChunksRoundTrip ==
    (page.op = "split_review") =>
       /\ Concat(page.ans) = page.review
       /\ \A i \in DOMAIN page.ans :
             page.ans[i] = SubSeq(page.review, Offset(page.ans, i) + 1,
                                  Offset(page.ans, i) + Len(page.ans[i]))

\* A text has been split into two full chunks and a shorter third one.
C16_Witness ==
    /\ page.op = "split_review"
    /\ page.maxLen = 2
    /\ Len(page.review) = 5
    /\ Len(page.ans) = 3
    /\ page.ans[1] # page.ans[2]

\* C17: every chunk of chunkText but the last has length maxLen; the last
\* has length len(text) mod maxLen, or maxLen when that is 0; no chunk is
\* empty and an empty text gives no chunk, so there are
\* ceil(len(text) / maxLen) chunks; 2500 characters with maxLen 1024 give
\* the lengths 1024, 1024, 452.
C17_ChunkSizes ==
    (page.op = "split_review") =>
       LET x == page.review
           n == page.maxLen
           k == Len(page.ans)
       IN
       /\ \A i \in 1..(k - 1) : Len(page.ans[i]) = n
       /\ k > 0 => Len(page.ans[k]) =
                      IF Len(x) % n = 0 THEN n ELSE Len(x) % n
       /\ \A i \in 1..k : page.ans[i] # <<>>
       /\ (x = <<>>) => (k = 0)
       /\ k = (Len(x) + n - 1) \div n
       /\ (Len(x) = 2500 /\ n = 1024) =>
             [i \in 1..k |-> Len(page.ans[i])] = <<1024, 1024, 452>>

\* A text of 2500 characters has been split with the MAX_LEN of the module.
C17_Witness ==
    /\ page.op = "split_review"
    /\ page.maxLen = MAX_LEN
    /\ Len(page.review) = 2500
    /\ Len(page.ans) = 3

\* C18: every chunk of chunkList has length <= maxLen, except a chunk that
\* is a single item whose own length exceeds maxLen.
C18_ChunkBound ==
    (page.op = "split_subjects") =>
       \A i \in DOMAIN page.ans :
          \/ Len(page.ans[i]) <= page.maxLen
          \/ \E j \in DOMAIN page.subjects :
                /\ page.ans[i] = page.subjects[j]
                /\ Len(page.subjects[j]) > page.maxLen

\* Two shortcuts joined by the separator fill a chunk to the last
\* character, and a shortcut longer than maxLen has a chunk of its own.
C18_Witness ==
    /\ page.op = "split_subjects"
    /\ Len(page.subjects) >= 2
    /\ \E i \in DOMAIN page.ans :
          /\ Len(page.ans[i]) = page.maxLen
          /\ page.ans[i] = page.subjects[1] \o Separator \o page.subjects[2]
    /\ \E i \in DOMAIN page.ans : Len(page.ans[i]) > page.maxLen

\* str.split(", ") of a chunk: the empty chunk gives one empty item.
RECURSIVE SplitFrom(_, _)
SplitFrom(s, item) ==
    IF s = <<>> THEN <<item>>
    ELSE IF Len(s) >= Len(Separator) /\ SubSeq(s, 1, Len(Separator)) = Separator
    THEN <<item>> \o SplitFrom(SubSeq(s, Len(Separator) + 1, Len(s)), <<>>)
    ELSE SplitFrom(Tail(s), Append(item, Head(s)))
str_split(s) == SplitFrom(s, <<>>)

\* C19: chunkList loses nothing and keeps order: splitting each chunk on
\* the separator and joining the results gives the input list, and an item
\* longer than maxLen is alone in a chunk of its own.
C19_ItemsKept ==
    (page.op = "split_subjects") =>
       /\ Concat([i \in DOMAIN page.ans |-> str_split(page.ans[i])]) =
             page.subjects
       /\ \A j \in DOMAIN page.subjects :
             Len(page.subjects[j]) > page.maxLen =>
                \E i \in DOMAIN page.ans : page.ans[i] = page.subjects[j]

\* C20: chunkList starts a new chunk exactly when the next item, plus the
\* separator if the current chunk is non-empty, would take the chunk over
\* maxLen; an item of length <= maxLen that arrives at an empty chunk is
\* placed in that chunk.
C20_GreedyPacking ==
    (page.op = "split_subjects") =>
       \A k \in 0..(Len(page.subjects) - 1) :
          LET ans == split_subjects(SubSeq(page.subjects, 1, k), page.maxLen)
              chunk == ans[Len(ans)]
              item == page.subjects[k + 1]
              after == split_subjects(SubSeq(page.subjects, 1, k + 1),
                                      page.maxLen)
              exceeds == Len(chunk) + Len(item)
                            + (IF chunk # <<>> THEN Len(Separator) ELSE 0)
                         > page.maxLen
          IN
          /\ (Len(after) = Len(ans) + 1) <=> exceeds
          /\ (Len(after) = Len(ans)) <=> ~exceeds
          /\ (chunk = <<>> /\ Len(item) <= page.maxLen) =>
                after[Len(ans)] = item

\* C12: when Subject.remove runs between the subject lookup of an add and
\* its final write, the add aborts, reports that the subject was not found
\* (SubjectNotFound, or the None of Review.add) and writes nothing: no add
\* ever writes a review that references a subject that is not stored.
C12_NoReviewOfRemovedSubject ==
    [][\A w \in Callers :
          /\ (add_get(w) /\ Subject_get(calls[w].g, calls[w].abbr) = {}) =>
                /\ last'.result \in {"SubjectNotFound", "None"}
                /\ UNCHANGED db
          /\ add_write(w) =>
                /\ \A r \in reviews' \ reviews :
                      \E s \in subjects' : s.id = r.subject
                /\ (\A s \in subjects : s.id # calls[w].sid) =>
                      /\ last'.result \in {"SubjectNotFound", "None"}
                      /\ UNCHANGED db]_vars

\* C13: under every interleaving of two concurrent adds for one (author,
\* subject) the two never both pass the existence check and both insert:
\* once an add has written, exactly one review exists for its key, and it
\* holds the anonymous flag and the text of that add.
C13_ConcurrentAddsKeepOneReview ==
    [][\A w \in Callers :
          (add_write(w) /\ last'.result = "ok") =>
             LET key == {r \in reviews' : /\ r.discord_id = calls[w].a
                                          /\ r.subject = calls[w].sid}
             IN
             /\ Cardinality(key) = 1
             /\ \A r \in key : /\ r.anonym = calls[w].inp.anonymous
                                /\ r.text_review = calls[w].inp.text]_vars

\* C14: vote writes are last-write-wins per (review, voter): under every
\* interleaving of concurrent votes of one voter on one review every call
\* on a stored review completes without error, the voter is left with at
\* most one entry, which is the target of this call or what another call
\* had written, and no entry of another voter or review is lost or altered.
C14_VoteLastWriteWins ==
    [][\A w \in Callers :
          (vote_write(w) /\ Review_get(calls[w].rid) # {}) =>
             LET c == calls[w]
                 mine(e) == e.review = c.rid /\ e.discord_id = c.a
                 target == IF c.op = "vote_up" THEN {Up(c.rid, c.a)}
                           ELSE IF c.op = "vote_down" THEN {Down(c.rid, c.a)}
                           ELSE {}
             IN
             /\ last'.result = "ok"
             /\ Cardinality({e \in relevance' : mine(e)}) <= 1
             /\ {e \in relevance' : mine(e)} \subseteq
                   {e \in relevance : mine(e)} \cup target
             /\ {e \in relevance' : ~mine(e)} =
                   {e \in relevance : ~mine(e)}]_vars

\* C22: voteUp, voteDown and voteNeutral by voter v on review r change at
\* most the entry (r, v): the entries of every other voter on r, every
\* entry on another review, and every review and subject row stay as they
\* were.
C22_VoteFrame ==
    [][(last'.op \in VoteOps) =>
          \A rid \in ReviewIds, u \in Users :
             (\/ ReviewEmbed_vote_up(rid, u)
              \/ ReviewEmbed_vote_down(rid, u)
              \/ ReviewEmbed_vote_neutral(rid, u)) =>
                /\ {e \in relevance' : ~(e.review = rid /\ e.discord_id = u)}
                      = {e \in relevance : ~(e.review = rid /\ e.discord_id = u)}
                /\ reviews' = reviews
                /\ subjects' = subjects]_vars

\* A voteNeutral has just deleted a voter's entry on a review on which
\* another voter's entry is stored, as is an entry on another review.
C22_Witness ==
    /\ last.op = "vote_neutral" /\ last.result = "ok"
    /\ last.existed /\ last.changed
    /\ Cardinality(RelevanceOf(last.rid)) = 1
    /\ \E e \in relevance : e.review # last.rid

\* The review the embed on display was built for is still stored.
EmbedReviewStored ==
    \E r \in reviews : /\ r.id = embed.review_id
                        /\ r.discord_id = embed.author
                        /\ r.subject = embed.subject

\* C21: a vote (up, down or neutral) that arrives for a review removed in
\* the meantime is a no-op, it creates no vote entry and changes no stored
\* row; every vote entry references a stored review in every state.
C21_VoteForRemovedReviewIsNoOp ==
    [][/\ \A e \in relevance' : \E r \in reviews' : r.id = e.review
       /\ \A u \in Users :
             (ReviewEmbed_button(u) /\ ~EmbedReviewStored) =>
                /\ UNCHANGED db
                /\ last'.result = "gone"]_vars

====
